---- MODULE Spec2Model ----
(***************************************************************************)
(* Privara: privacy-preserving reputation ledger on Zama FHEVM.            *)
(*                                                                         *)
(* The model covers the FHEVM contract `Privara` (submitMetrics,           *)
(* computeReputation, getResult, getAllResults, hasUserSubmitted,          *)
(* isResultReady, reset), the FHE coprocessor state it drives (ciphertext  *)
(* handles, their plaintexts, the persistent ACL) and the user-decryption  *)
(* request the frontend sends for a result vector.                         *)
(***************************************************************************)
EXTENDS Integers, Sequences, FiniteSets, TLC

(***************************************************************************)
(* Bounds of the model.                                                    *)
(***************************************************************************)
\* events kept in the log; an emitting transaction is not taken beyond it
MaxEvents == 4
\* getResult is called with every index in 0..MaxIndex
MaxIndex == 6
\* a submit that mixes two encrypted inputs takes slots 0..SplitSlot-1 from
\* the first and the others from the second
SplitSlot == 4
\* the legacy pipeline is run on follower counts 0..MaxFollowers and
\* following counts 0..MaxFollowing
MaxFollowers == 3
MaxFollowing == 3
\* the handles and the proof bytes of a packed payload
MaxHandles == 8
MaxProofLen == 3
\* the events the legacy contract emits, the transient faults of the worker
MaxLegacyEvents == 4
MaxFailures == 1
\* the successful calls kept in the ledger's call history
MaxTrace == 6

(***************************************************************************)
(* Program constants.                                                      *)
(***************************************************************************)
NumMetrics == 8
NumResults == 5
Hundred == 100
HealthDivisor == 2
SCALE == 10000

(***************************************************************************)
(* Identities.                                                             *)
(***************************************************************************)
Users == {"alice", "bob"}
ThisContract == "privara"
OtherContract == "other"

(***************************************************************************)
(* euint32 plaintexts: 32-bit unsigned integers held as two 16-bit limbs   *)
(* <<hi, lo>>, so that wrapping arithmetic is exact.                       *)
(***************************************************************************)
Limb == 65536

U32(n) == << n \div Limb, n % Limb >>

U32Add(a, b) ==
    LET lo == a[2] + b[2]
    IN  << (a[1] + b[1] + (lo \div Limb)) % Limb, lo % Limb >>

U32Sub(a, b) ==
    LET lo == a[2] - b[2]
        borrow == IF lo < 0 THEN 1 ELSE 0
    IN  << (a[1] - b[1] - borrow) % Limb, lo % Limb >>

U32DivScalar(a, d) ==
    LET r == a[1] % d
    IN  << a[1] \div d, (r * Limb + a[2]) \div d >>

\* a plaintext that fits in 0..100, as an integer (101 otherwise)
U32Small(a) == IF a[1] = 0 /\ a[2] <= Hundred THEN a[2] ELSE Hundred + 1

(***************************************************************************)
(* Encrypted inputs prepared off-chain by createEncryptedInput(contract,   *)
(* user).add32(..)x8.encrypt(): eight handles and one proof bound to the   *)
(* (contract, user) pair.  Metric order: follower_count, following_count,  *)
(* engagement_rate, account_age_days, bot_likelihood, posting_frequency,   *)
(* follower_quality, growth_score.                                         *)
(***************************************************************************)
EncInputs ==
    << [owner |-> "alice", contract |-> ThisContract,
        values |-> <<1000, 500, 50, 365, 10, 70, 80, 60>>],
       [owner |-> "alice", contract |-> ThisContract,
        values |-> <<2000, 1000, 60, 730, 5, 80, 85, 70>>],
       [owner |-> "bob", contract |-> ThisContract,
        values |-> <<5000, 2000, 75, 730, 15, 85, 90, 80>>],
       [owner |-> "bob", contract |-> ThisContract,
        values |-> <<5000, 2000, 7500, 730, 1500, 8500, 9000, 8000>>],
       [owner |-> "alice", contract |-> OtherContract,
        values |-> <<0, 0, 0, 0, 0, 0, 0, 0>>] >>

InputIds == 1..Len(EncInputs)

(***************************************************************************)
(* Ciphertext handles.  A handle is the hash of what produced it; the      *)
(* model keeps the preimage: <<OpInput, k, i>> is slot i of encrypted      *)
(* input k, the others are the FHE operator applied to its operands.       *)
(***************************************************************************)
OpZero == 0
OpInput == 1
OpTrivial == 2
OpSub == 3
OpAdd == 4
OpDiv == 5

ZeroHandle == << OpZero >>
\* slot i (0..7) of encrypted input k
InputHandle(k, i) == << OpInput, k, i >>
InputHandles(k) == [i \in 0..(NumMetrics - 1) |-> InputHandle(k, i)]
\* a call made with handles of two encrypted inputs: the first slots are
\* those of input k, the others those of input k2
MixedHandles(k, k2) ==
    [i \in 0..(NumMetrics - 1) |->
        IF i < SplitSlot THEN InputHandle(k, i) ELSE InputHandle(k2, i)]

RECURSIVE Dec(_)
Dec(h) ==
    CASE h[1] = OpZero -> U32(0)
      [] h[1] = OpInput -> U32(EncInputs[h[2]].values[h[3] + 1])
      [] h[1] = OpTrivial -> U32(h[2])
      [] h[1] = OpSub -> U32Sub(Dec(h[2]), Dec(h[3]))
      [] h[1] = OpAdd -> U32Add(Dec(h[2]), Dec(h[3]))
      [] h[1] = OpDiv -> U32DivScalar(Dec(h[2]), h[3])

VARIABLES
    encryptedMetrics,   \* address -> euint32[8]
    encryptedResults,   \* address -> euint32[5]
    hasSubmitted,       \* address -> bool
    resultReady,        \* address -> bool
    acl,                \* persistent ACL: set of <<handle, account>>
    events,             \* emitted events, in order
    lastCall,           \* the call whose outcome the caller is reading
    twin,               \* a second ledger given the same calls on other plaintexts
    engine,             \* the legacy pipeline: PrivaraFHEVM storage, last engine call
    frontend,           \* the frontend's encryption module: SDK state, last call
    worker,             \* the legacy bytes contract, the listener and its callbacks
    trace               \* the calls made to the ledger, in order

vars == << encryptedMetrics, encryptedResults, hasSubmitted, resultReady,
           acl, events, lastCall, twin, engine, frontend, worker, trace >>

\* the ledger state a call starts from
Cur ==
    [encryptedMetrics |-> encryptedMetrics,
     encryptedResults |-> encryptedResults,
     hasSubmitted |-> hasSubmitted,
     resultReady |-> resultReady,
     acl |-> acl,
     events |-> events]

(***************************************************************************)
(* Transaction outcomes.  A revert discards every write of the call: the   *)
(* state returned is the state s0 the call started from.                   *)
(***************************************************************************)
Revert(s0, msg) == [err |-> msg, ret |-> << >>, flag |-> FALSE, s |-> s0]
Commit(s1, ret) == [err |-> "", ret |-> ret, flag |-> FALSE, s |-> s1]
View(s0, flag) == [err |-> "", ret |-> << >>, flag |-> flag, s |-> s0]

(***************************************************************************)
(* FHE library calls made by the contract.                                 *)
(***************************************************************************)
\* FHE.fromExternal: the proof must bind the handle to (this contract, sender)
ProofVerifies(h, p, sender) ==
    /\ EncInputs[p].contract = ThisContract
    /\ EncInputs[p].owner = sender
    /\ h[1] = OpInput
    /\ h[2] = p

FHE_allowThis(a, h) == a \cup { << h, ThisContract >> }
FHE_allow(a, h, account) == a \cup { << h, account >> }
FHE_asEuint32(n) == << OpTrivial, n >>
FHE_sub(x, y) == << OpSub, x, y >>
FHE_add(x, y) == << OpAdd, x, y >>
FHE_div(x, d) == << OpDiv, x, d >>

(***************************************************************************)
(* contract Privara                                                        *)
(***************************************************************************)
Emit(s, name, user) == [s EXCEPT !.events = Append(@, << name, user >>)]

\* variant: a slot that already holds a handle is not overwritten
RECURSIVE SubmitLoop_KeepOld(_, _, _, _, _)
SubmitLoop_KeepOld(s, sender, metrics, inputProof, i) ==
    IF i >= NumMetrics THEN [ok |-> TRUE, s |-> s]
    ELSE IF ~ProofVerifies(metrics[i], inputProof, sender)
         THEN [ok |-> FALSE, s |-> s]
         ELSE SubmitLoop_KeepOld(
                [s EXCEPT !.encryptedMetrics[sender][i] =
                              IF @ = ZeroHandle THEN metrics[i] ELSE @,
                          !.acl = FHE_allowThis(@, metrics[i])],
                sender, metrics, inputProof, i + 1)

\* the conversion loop of submitMetrics, from slot i on: each slot is
\* verified, written and allowed to the contract before the next one
RECURSIVE SubmitLoop(_, _, _, _, _)
SubmitLoop(s, sender, metrics, inputProof, i) ==
    IF i >= NumMetrics THEN [ok |-> TRUE, s |-> s]
    ELSE IF ~ProofVerifies(metrics[i], inputProof, sender)
         THEN [ok |-> FALSE, s |-> s]
         ELSE SubmitLoop(
                [s EXCEPT !.encryptedMetrics[sender][i] = metrics[i],
                          !.acl = FHE_allowThis(@, metrics[i])],
                sender, metrics, inputProof, i + 1)

\* variant: the inputs are converted before the double-submission check
submitMetrics_ProofFirst(s, sender, metrics, inputProof) ==
    LET loop == SubmitLoop(s, sender, metrics, inputProof, 0)
    IN  IF ~loop.ok THEN Revert(s, "InvalidProof")
        ELSE IF s.hasSubmitted[sender] THEN Revert(s, "Already submitted")
        ELSE Commit(
               Emit([loop.s EXCEPT !.hasSubmitted[sender] = TRUE],
                    "MetricsSubmitted", sender),
               << >>)

\* variant: the event is not emitted
submitMetrics_NoEmit(s, sender, metrics, inputProof) ==
    IF s.hasSubmitted[sender] THEN Revert(s, "Already submitted")
    ELSE LET loop == SubmitLoop(s, sender, metrics, inputProof, 0)
         IN  IF ~loop.ok THEN Revert(s, "InvalidProof")
             ELSE Commit([loop.s EXCEPT !.hasSubmitted[sender] = TRUE], << >>)

\* variant: the double-submission check is missing
submitMetrics_NoSubmittedCheck(s, sender, metrics, inputProof) ==
    LET loop == SubmitLoop(s, sender, metrics, inputProof, 0)
    IN  IF ~loop.ok THEN Revert(s, "InvalidProof")
        ELSE Commit(
               Emit([loop.s EXCEPT !.hasSubmitted[sender] = TRUE],
                    "MetricsSubmitted", sender),
               << >>)

\* variant: a failed conversion keeps the slots written before it
submitMetrics_PartialWrite(s, sender, metrics, inputProof) ==
    IF s.hasSubmitted[sender] THEN Revert(s, "Already submitted")
    ELSE LET loop == SubmitLoop(s, sender, metrics, inputProof, 0)
         IN  IF ~loop.ok THEN Revert(loop.s, "InvalidProof")
             ELSE Commit(
                    Emit([loop.s EXCEPT !.hasSubmitted[sender] = TRUE],
                         "MetricsSubmitted", sender),
                    << >>)

submitMetrics(s, sender, metrics, inputProof) ==
    IF s.hasSubmitted[sender] THEN Revert(s, "Already submitted")
    ELSE LET loop == SubmitLoop(s, sender, metrics, inputProof, 0)
         IN  IF ~loop.ok THEN Revert(s, "InvalidProof")
             ELSE Commit(
                    Emit([loop.s EXCEPT !.hasSubmitted[sender] = TRUE],
                         "MetricsSubmitted", sender),
                    << >>)

\* variant: the health average rounds half up
ReputationHandles_RoundUp(m) ==
    LET hundred == FHE_asEuint32(Hundred)
        healthSum == FHE_add(FHE_add(m[5], m[6]), FHE_asEuint32(1))
    IN  [i \in 0..(NumResults - 1) |->
            CASE i = 0 -> FHE_sub(hundred, m[4])
              [] i = 1 -> m[2]
              [] i = 2 -> FHE_div(healthSum, HealthDivisor)
              [] i = 3 -> m[4]
              [] i = 4 -> m[7]]

\* the five scores of computeReputation, from the stored metrics m
ReputationHandles(m) ==
    LET hundred == FHE_asEuint32(Hundred)
        authenticity == FHE_sub(hundred, m[4])
        influence == m[2]
        healthSum == FHE_add(m[5], m[6])
        accountHealth == FHE_div(healthSum, HealthDivisor)
        riskScore == m[4]
        momentum == m[7]
    IN  [i \in 0..(NumResults - 1) |->
            CASE i = 0 -> authenticity
              [] i = 1 -> influence
              [] i = 2 -> accountHealth
              [] i = 3 -> riskScore
              [] i = 4 -> momentum]

\* variant: the results are granted to every account
ResultGrantees_Everyone(sender) == { ThisContract } \cup Users

\* the accounts computeReputation grants each result handle to
ResultGrantees(sender) == { ThisContract, sender }

\* variant: the results are allowed to the caller, not to the contract
RECURSIVE GrantLoop_OwnerOnly(_, _, _, _)
GrantLoop_OwnerOnly(a, results, sender, i) ==
    IF i >= NumResults THEN a
    ELSE GrantLoop_OwnerOnly(FHE_allow(a, results[i], sender),
                             results, sender, i + 1)

RECURSIVE GrantLoop(_, _, _, _)
GrantLoop(a, results, sender, i) ==
    IF i >= NumResults THEN a
    ELSE GrantLoop(a \cup { << results[i], g >> : g \in ResultGrantees(sender) },
                   results, sender, i + 1)

ComputeBody(s, sender) ==
    LET m == s.encryptedMetrics[sender]
        results == ReputationHandles(m)
    IN  Commit(
          Emit([s EXCEPT !.encryptedResults[sender] = results,
                         !.acl = GrantLoop(@, results, sender, 0),
                         !.resultReady[sender] = TRUE],
               "ReputationComputed", sender),
          << >>)

\* variant: the submission check is missing
computeReputation_NoSubmitCheck(s, sender) ==
    IF s.resultReady[sender] THEN Revert(s, "Already computed")
    ELSE ComputeBody(s, sender)

\* variant: the recomputation check is missing
computeReputation_NoComputedCheck(s, sender) ==
    IF ~s.hasSubmitted[sender] THEN Revert(s, "No metrics submitted")
    ELSE ComputeBody(s, sender)

\* variant: the contract refuses a bot likelihood above 100
computeReputation_RangeChecked(s, sender) ==
    IF ~s.hasSubmitted[sender] THEN Revert(s, "No metrics submitted")
    ELSE IF s.resultReady[sender] THEN Revert(s, "Already computed")
    ELSE IF U32Small(Dec(s.encryptedMetrics[sender][4])) > Hundred
         THEN Revert(s, "Out of range")
         ELSE ComputeBody(s, sender)

computeReputation(s, sender) ==
    IF ~s.hasSubmitted[sender] THEN Revert(s, "No metrics submitted")
    ELSE IF s.resultReady[sender] THEN Revert(s, "Already computed")
    ELSE ComputeBody(s, sender)

\* variant: the index is checked before the readiness of the result
getResult_IndexFirst(s, sender, index) ==
    IF ~(index < NumResults) THEN Revert(s, "Invalid index")
    ELSE IF ~s.resultReady[sender] THEN Revert(s, "Result not ready")
    ELSE Commit(s, << s.encryptedResults[sender][index] >>)

getResult(s, sender, index) ==
    IF ~s.resultReady[sender] THEN Revert(s, "Result not ready")
    ELSE IF ~(index < NumResults) THEN Revert(s, "Invalid index")
    ELSE Commit(s, << s.encryptedResults[sender][index] >>)

\* variant: the results can be read once
getAllResults_Consumes(s, sender) ==
    IF ~s.resultReady[sender] THEN Revert(s, "Result not ready")
    ELSE Commit([s EXCEPT !.resultReady[sender] = FALSE],
                [i \in 1..NumResults |-> s.encryptedResults[sender][i - 1]])

getAllResults(s, sender) ==
    IF ~s.resultReady[sender] THEN Revert(s, "Result not ready")
    ELSE Commit(s, [i \in 1..NumResults |-> s.encryptedResults[sender][i - 1]])

hasUserSubmitted(s, user) == View(s, s.hasSubmitted[user])

isResultReady(s, user) == View(s, s.resultReady[user])

\* variant: the flags of every user are cleared
reset_Global(s, sender) ==
    Commit([s EXCEPT !.hasSubmitted = [u \in DOMAIN @ |-> FALSE],
                     !.resultReady = [u \in DOMAIN @ |-> FALSE]],
           << >>)

\* variant: only a record that holds a submission can be reset
reset_RequireSubmitted(s, sender) ==
    IF ~s.hasSubmitted[sender] THEN Revert(s, "No metrics submitted")
    ELSE Commit([s EXCEPT !.hasSubmitted[sender] = FALSE,
                          !.resultReady[sender] = FALSE],
                << >>)

\* variant: the submission flag alone is cleared
reset_SubmissionOnly(s, sender) ==
    Commit([s EXCEPT !.hasSubmitted[sender] = FALSE], << >>)

\* variant: the result flag alone is cleared
reset_ResultOnly(s, sender) ==
    Commit([s EXCEPT !.resultReady[sender] = FALSE], << >>)

reset(s, sender) ==
    Commit([s EXCEPT !.hasSubmitted[sender] = FALSE,
                     !.resultReady[sender] = FALSE],
           << >>)

(***************************************************************************)
(* User decryption of a result vector (frontend decryptResult): a          *)
(* permission for [contractAddress], signed through signMessage, is sent   *)
(* with the handles to the decryption service.                             *)
(***************************************************************************)
U32ModScalar(a, d) == ((a[1] % d) * Limb + a[2]) % d

\* the service's checks, in order
userDecrypt(a, handles, signer, userAddress, expired) ==
    IF signer # userAddress THEN "Rejected"
    ELSE IF expired THEN "Expired"
    ELSE IF \E i \in DOMAIN handles :
                \/ << handles[i], userAddress >> \notin a
                \/ << handles[i], ThisContract >> \notin a
         THEN "Rejected"
         ELSE ""

\* each decrypted value v is shown as v / 100: << quotient, remainder >>
decryptResult(s, handles, signer, userAddress, expired) ==
    LET verdict == userDecrypt(s.acl, handles, signer, userAddress, expired)
    IN  IF verdict # ""
        THEN [err |-> verdict, plain |-> << >>, shown |-> << >>]
        ELSE [err |-> "",
              plain |-> [i \in DOMAIN handles |-> Dec(handles[i])],
              shown |-> [i \in DOMAIN handles |->
                            << U32DivScalar(Dec(handles[i]), Hundred),
                               U32ModScalar(Dec(handles[i]), Hundred) >>]]

(***************************************************************************)
(* The legacy pipeline.  The frontend packs the eight scaled metrics in a  *)
(* JSON payload; the worker hands the payload of a submission to the       *)
(* computation engine (compute.js computeReputation); the contract         *)
(* PrivaraFHEVM computes the same scores on chain.                         *)
(***************************************************************************)
Min(a, b) == IF a < b THEN a ELSE b
Max(a, b) == IF a > b THEN a ELSE b

\* the engine's example profile
DefaultMetrics == << 1250, 320, 420, 730, 1500, 800, 7200, 6500 >>

\* the scaled values of a profile with follower count f, following count g
ProfileMetrics(f, g) == [DefaultMetrics EXCEPT ![1] = f, ![2] = g]

\* scaled profiles at the edges: every metric zero, every percentage at
\* 100.00, a bot likelihood of 200.00 beside zeros
EdgeProfiles ==
    << << 0, 0, 0, 0, 0, 0, 0, 0 >>,
       << 5, 1, 10000, 365, 0, 10000, 10000, 10000 >>,
       << 0, 0, 0, 0, 20000, 0, 0, 0 >> >>

\* btoa(text): an encoding that is undone without any key
Base64Text(v) == << "base64", v >>
\* Buffer.from(text, 'base64') parsed back (parseInt, JSON.parse)
ParseBase64(t) == t[2]

PayloadForms == {"strings", "numbers", "json64", "short", "undefined", "binary"}

\* the wire payloads the engine is handed: the frontend's JSON payload of
\* base64 strings, the other shapes computeReputation tells apart, and the
\* byte-packed handles payload, which is not JSON
Payload(form, owner, values) ==
    [wire |-> IF form = "binary" THEN "binary" ELSE "json",
     userAddress |-> owner,
     encrypted |->
        CASE form = "strings" ->
                [type |-> "array", elemType |-> "string",
                 elems |-> [i \in DOMAIN values |-> Base64Text(values[i])]]
          [] form = "numbers" ->
                [type |-> "array", elemType |-> "number", elems |-> values]
          [] form = "short" ->
                [type |-> "array", elemType |-> "number",
                 elems |-> SubSeq(values, 1, Len(values) - 1)]
          [] form = "json64" ->
                [type |-> "string", elemType |-> "",
                 elems |-> << Base64Text(values) >>]
          [] OTHER ->
                [type |-> "undefined", elemType |-> "", elems |-> << >>]]

decodePayload(encryptedPayload) ==
    IF encryptedPayload.wire = "json"
    THEN [err |-> "", payload |-> encryptedPayload]
    ELSE [err |-> "Failed to decode payload", payload |-> encryptedPayload]

\* the metrics computeReputation works on
ExtractMetrics(payload) ==
    LET e == payload.encrypted
        metrics ==
            IF e.type = "array"
            THEN IF Len(e.elems) > 0 /\ e.elemType = "string"
                 THEN [i \in DOMAIN e.elems |-> ParseBase64(e.elems[i])]
                 ELSE e.elems
            ELSE IF e.type = "string" THEN ParseBase64(e.elems[1])
            ELSE DefaultMetrics
    IN  IF Len(metrics) # NumMetrics THEN DefaultMetrics ELSE metrics

\* Math.floor(Math.log(x + 1) * SCALE) on the follower counts of the model
LogTable == [x \in {2, 3, 4, 5, 1250} |->
                CASE x = 2 -> 10986 [] x = 3 -> 13862 [] x = 4 -> 16094
                  [] x = 5 -> 17917 [] x = 1250 -> 71316]

logApprox(x) == IF x <= 0 THEN 0 ELSE IF x = 1 THEN 0 ELSE LogTable[x]

followerRatio(follower_count, following_count) ==
    IF following_count > 0
    THEN (follower_count * SCALE) \div following_count
    ELSE 0

\* the reputationVector of computeReputation
EngineScores(metrics) ==
    LET follower_count == metrics[1]
        following_count == metrics[2]
        engagement_rate == metrics[3] * 100
        account_age_days == metrics[4]
        bot_likelihood == metrics[5] * 100
        posting_frequency == metrics[6] * 100
        follower_quality == metrics[7] * 100
        growth_score == metrics[8] * 100
        authenticityPart1 ==
            (followerRatio(follower_count, following_count) * 40) \div 100
        botInverse == (100 * SCALE) - bot_likelihood
        authenticityPart2 == (botInverse * 30) \div 100
        ageScore == (account_age_days * 100 * SCALE) \div 365
        authenticityPart3 == (ageScore * 30) \div 100
        authenticity ==
            Min(100 * SCALE,
                authenticityPart1 + authenticityPart2 + authenticityPart3)
        influencePart1 == (logApprox(follower_count) * 50) \div 100
        influencePart2 == (engagement_rate * 30) \div 100
        influencePart3 == (growth_score * 20) \div 100
        influence ==
            Min(100 * SCALE, influencePart1 + influencePart2 + influencePart3)
        healthPart1 == (posting_frequency * 50) \div 100
        healthPart2 == (follower_quality * 30) \div 100
        healthPart3 == (engagement_rate * 20) \div 100
        account_health ==
            Min(100 * SCALE, healthPart1 + healthPart2 + healthPart3)
        avgAuthenticityHealth == (authenticity + account_health) \div 2
        risk_score == Max(0, (100 * SCALE) - avgAuthenticityHealth)
        momentum ==
            Min(100 * SCALE,
                ((growth_score * 60) \div 100) + ((engagement_rate * 40) \div 100))
    IN  << authenticity, influence, account_health, risk_score, momentum >>

encodeResult(encryptedData) ==
    [wire |-> "json", userAddress |-> "",
     encrypted |-> [type |-> "string", elemType |-> "",
                    elems |-> << encryptedData >>]]

\* compute.js computeReputation: what it ends with, the metrics it held in
\* the clear, the ratio and the divisors it divided metrics by
Engine_computeReputation(encryptedPayload) ==
    LET d == decodePayload(encryptedPayload)
        metrics == ExtractMetrics(d.payload)
    IN  IF d.err # ""
        THEN [err |-> d.err, metrics |-> << >>, ratio |-> U32(0),
              divisors |-> {}, ret |-> << >>]
        ELSE [err |-> "", metrics |-> metrics,
              ratio |-> U32(followerRatio(metrics[1], metrics[2])),
              divisors |-> IF metrics[2] > 0 THEN { U32(metrics[2]) } ELSE {},
              ret |-> encodeResult(Base64Text(EngineScores(metrics)))]

(***************************************************************************)
(* contract PrivaraFHEVM.  An euint32 is held as the plaintext it          *)
(* encrypts; the FHE operators wrap at 32 bits.                            *)
(***************************************************************************)
\* the product of two 16-bit numbers
Mul16(a, b) ==
    LET x == a * (b \div 256)
        y == a * (b % 256)
    IN  U32Add(<< x \div 256, (x % 256) * 256 >>, U32(y))

\* FHE.mul by a plaintext n
U32MulScalar(a, n) ==
    LET c == U32(n)
    IN  U32Add(Mul16(a[2], c[2]),
               << (Mul16(a[1], c[2])[2] + Mul16(a[2], c[1])[2]) % Limb, 0 >>)

\* what FHE.div yields on an encrypted divisor that is zero
DivByZeroQuotients == { U32(0), << Limb - 1, Limb - 1 >> }

\* FHE.div by an encrypted divisor (below 2^15 in this model)
FHE_divEncrypted(x, y, zeroQuot) ==
    IF y = U32(0) THEN zeroQuot ELSE U32DivScalar(x, y[2])

NoFhevm ==
    [encryptedMetrics |-> [u \in Users |-> << >>],
     hasSubmitted |-> [u \in Users |-> FALSE]]

PrivaraFHEVM_submitEncryptedData(c, sender, encryptedMetricsArray) ==
    IF Len(encryptedMetricsArray) # 8
    THEN [err |-> "Invalid metrics array length", c |-> c]
    ELSE IF c.hasSubmitted[sender]
         THEN [err |-> "Data already submitted", c |-> c]
         ELSE [err |-> "",
               c |-> [c EXCEPT !.encryptedMetrics[sender] = encryptedMetricsArray,
                               !.hasSubmitted[sender] = TRUE]]

\* the reputationVector of PrivaraFHEVM.computeReputation
FhevmScores(metrics, zeroQuot) ==
    LET follower_count == metrics[1]
        following_count == metrics[2]
        account_age_days == metrics[4]
        engagement_rate == U32MulScalar(metrics[3], 100)
        bot_likelihood == U32MulScalar(metrics[5], 100)
        posting_frequency == U32MulScalar(metrics[6], 100)
        follower_quality == U32MulScalar(metrics[7], 100)
        growth_score == U32MulScalar(metrics[8], 100)
        part(x, weight) == U32DivScalar(U32MulScalar(x, weight), 100)
        fhevmRatio ==
            FHE_divEncrypted(U32MulScalar(follower_count, 10000),
                             following_count, zeroQuot)
        authenticityPart1 == part(fhevmRatio, 40)
        botInverse == U32Sub(U32(1000000), bot_likelihood)
        authenticityPart2 == part(botInverse, 30)
        ageScore == U32DivScalar(U32MulScalar(account_age_days, 1000000), 365)
        authenticityPart3 == part(ageScore, 30)
        authenticity ==
            U32Add(U32Add(authenticityPart1, authenticityPart2), authenticityPart3)
        influence == U32Add(part(engagement_rate, 30), part(growth_score, 20))
        account_health ==
            U32Add(U32Add(part(posting_frequency, 50), part(follower_quality, 30)),
                   part(engagement_rate, 20))
        avgAuthenticityHealth == U32DivScalar(U32Add(authenticity, account_health), 2)
        risk_score == U32Sub(U32(1000000), avgAuthenticityHealth)
        momentum == U32Add(part(growth_score, 60), part(engagement_rate, 40))
    IN  [ratio |-> fhevmRatio,
         vector |-> << authenticity, influence, account_health, risk_score, momentum >>]

PrivaraFHEVM_computeReputation(c, sender, zeroQuot) ==
    IF ~c.hasSubmitted[sender]
    THEN [err |-> "No data submitted", metrics |-> << >>, ratio |-> U32(0),
          divisors |-> {}, ret |-> << >>]
    ELSE LET metrics == c.encryptedMetrics[sender]
         IN  IF Len(metrics) # 8
             THEN [err |-> "Invalid metrics length", metrics |-> << >>,
                   ratio |-> U32(0), divisors |-> {}, ret |-> << >>]
             ELSE [err |-> "", metrics |-> << >>,
                   ratio |-> FhevmScores(metrics, zeroQuot).ratio,
                   divisors |-> { metrics[2] },
                   ret |-> FhevmScores(metrics, zeroQuot).vector]

(***************************************************************************)
(* The frontend's encryption module (frontend/utils/encryption.ts): the    *)
(* lazily initialised SDK instance and the hex wire payload.  A promise is *)
(* held as its state: "null", "pending", "fulfilled" or "rejected".        *)
(***************************************************************************)
RelayerTimeoutMs == 30000

TimeoutError ==
    [msg |-> "Relayer connection timeout after 30 seconds",
     after |-> RelayerTimeoutMs]
NoError == [msg |-> "", after |-> 0]

\* the module variables fhevmInstance, isInitializing and initPromise, and
\* the error initPromise was rejected with
NoSdk ==
    [fhevmInstance |-> "null", isInitializing |-> FALSE,
     initPromise |-> "null", initError |-> NoError]

\* initializeFHE up to its return: the module state it leaves, whether it
\* started an initialization, and the promise the caller is handed
\* ("initPromise", or one already settled)
initializeFHE(m, wallet) ==
    IF m.initPromise # "null"
    THEN [m |-> m, started |-> FALSE, result |-> "initPromise"]
    ELSE IF m.fhevmInstance # "null"
    THEN [m |-> m, started |-> FALSE, result |-> "fulfilled"]
    ELSE IF ~wallet
    THEN [m |-> m, started |-> FALSE, result |-> "rejected"]
    ELSE [m |-> [m EXCEPT !.isInitializing = TRUE, !.initPromise = "pending"],
          started |-> TRUE, result |-> "initPromise"]

\* the body of initPromise once createInstance or the timer has settled
\* the race
initSettled(m, relayer) ==
    IF relayer = "responsive"
    THEN [m EXCEPT !.fhevmInstance = "instance", !.initPromise = "fulfilled",
                   !.isInitializing = FALSE]
    ELSE [m EXCEPT !.initPromise = "rejected", !.initError = TimeoutError,
                   !.isInitializing = FALSE]

\* validateMetrics on metrics given as whole numbers
validateMetrics(metrics) ==
    /\ metrics[1] >= 0
    /\ metrics[2] >= 0
    /\ metrics[3] >= 0 /\ metrics[3] <= 100
    /\ metrics[4] >= 0
    /\ metrics[5] >= 0 /\ metrics[5] <= 100
    /\ metrics[6] >= 0 /\ metrics[6] <= 100
    /\ metrics[7] >= 0 /\ metrics[7] <= 100
    /\ metrics[8] >= 0 /\ metrics[8] <= 100

\* scaledMetrics of encryptMetrics: the counts as they are, the percentages
\* times 100
ScaledMetrics(metrics) ==
    << metrics[1], metrics[2], metrics[3] * 100, metrics[4], metrics[5] * 100,
       metrics[6] * 100, metrics[7] * 100, metrics[8] * 100 >>

HandleSize == 32
HeaderSize == 4
ByteValues == 256
HexBase == 16

\* the bytes the SDK returns for slot i of encrypted input k, and the first
\* m bytes of that input's proof
HandleBytes(k, i) ==
    [j \in 1..HandleSize |-> (k * 31 + i * 17 + j * 7) % ByteValues]
ProofBytes(k, m) == [j \in 1..m |-> (k * 13 + j * 5 + 200) % ByteValues]

\* encryptedInput of the first n slots of input k with m proof bytes
EncryptedInput(k, n, m) ==
    [handles |-> [i \in 1..n |-> HandleBytes(k, i - 1)],
     inputProof |-> ProofBytes(k, m)]

RECURSIVE Concat(_)
Concat(chunks) ==
    IF chunks = << >> THEN << >> ELSE Head(chunks) \o Concat(Tail(chunks))

\* b.toString(16).padStart(2, '0') of every byte, joined
HexDigits(bytes) ==
    [d \in 1..(2 * Len(bytes)) |->
        IF d % 2 = 1 THEN bytes[(d + 1) \div 2] \div HexBase
        ELSE bytes[d \div 2] % HexBase]

\* parseInt(hex.slice(i, i + 2), 16) of every pair of digits
HexBytes(digits) ==
    [b \in 1..(Len(digits) \div 2) |->
        digits[2 * b - 1] * HexBase + digits[2 * b]]

\* Uint8Array.slice(from, to): offsets from 0, `to` exclusive, both clamped
Slice(bytes, from, to) ==
    SubSeq(bytes, Min(from, Len(bytes)) + 1, Min(to, Len(bytes)))

NoHex == [prefix |-> "", digits |-> << >>]

PayloadBytes(encryptedInput, headerSize) ==
    LET handles == encryptedInput.handles
        header == [b \in 1..headerSize |->
                      IF b = 1 THEN Len(handles) % ByteValues ELSE 0]
    IN  header \o Concat(handles) \o encryptedInput.inputProof

createHexPayload_OneByteHeader(encryptedInput) ==
    [prefix |-> "0x", digits |-> HexDigits(PayloadBytes(encryptedInput, 1))]

createHexPayload(encryptedInput) ==
    [prefix |-> "0x",
     digits |-> HexDigits(PayloadBytes(encryptedInput, HeaderSize))]

ParsedAt(hexPayload, start) ==
    LET hex == hexPayload.digits
        bytes == HexBytes(hex)
        numHandles == IF Len(bytes) > 0 THEN bytes[1] ELSE 0
        handleSize == HandleSize
    IN  [handles |-> [i \in 1..numHandles |->
                         Slice(bytes, start + (i - 1) * handleSize,
                               start + i * handleSize)],
         inputProof |-> Slice(bytes, start + numHandles * handleSize,
                              Len(bytes))]

parseHexPayload_OffsetOne(hexPayload) == ParsedAt(hexPayload, 1)

parseHexPayload(hexPayload) == ParsedAt(hexPayload, HeaderSize)

NoFrontendCall ==
    [op |-> "none", wallet |-> FALSE, started |-> FALSE, result |-> "",
     input |-> [handles |-> << >>, inputProof |-> << >>],
     hex |-> NoHex,
     parsed |-> [handles |-> << >>, inputProof |-> << >>]]

NoFrontend == [sdk |-> NoSdk, relayer |-> "responsive", call |-> NoFrontendCall]

(***************************************************************************)
(* The legacy bytes contract Privara (contracts/Privara.sol), the worker's *)
(* event listener (backend/listener.js) and its callback.                  *)
(***************************************************************************)
\* bytes of length zero
EmptyBytes ==
    [wire |-> "empty", userAddress |-> "",
     encrypted |-> [type |-> "undefined", elemType |-> "", elems |-> << >>]]

NoLegacy ==
    [encryptedMetrics |-> [u \in Users |-> EmptyBytes],
     encryptedResults |-> [u \in Users |-> EmptyBytes],
     hasSubmitted |-> [u \in Users |-> FALSE],
     resultReady |-> [u \in Users |-> FALSE],
     events |-> << >>]

LegacyEmit(c, name, user, data) ==
    [c EXCEPT !.events = Append(@, [name |-> name, user |-> user, data |-> data])]

Privara_submitEncryptedData(c, sender, encryptedPayload) ==
    IF encryptedPayload.wire = "empty"
    THEN [err |-> "Empty payload", c |-> c]
    ELSE IF c.hasSubmitted[sender]
    THEN [err |-> "Data already submitted", c |-> c]
    ELSE [err |-> "",
          c |-> LegacyEmit([c EXCEPT !.encryptedMetrics[sender] = encryptedPayload,
                                     !.hasSubmitted[sender] = TRUE],
                           "EncryptedDataSubmitted", sender, encryptedPayload)]

\* msg.sender is `sender`: the function never reads it
Privara_storeEncryptedResult(c, sender, user, encryptedResult) ==
    IF encryptedResult.wire = "empty"
    THEN [err |-> "Empty result", c |-> c]
    ELSE IF ~c.hasSubmitted[user]
    THEN [err |-> "No data submitted for user", c |-> c]
    ELSE [err |-> "",
          c |-> LegacyEmit([c EXCEPT !.encryptedResults[user] = encryptedResult,
                                     !.resultReady[user] = TRUE],
                           "EncryptedResultStored", user, encryptedResult)]

\* the payloads a user hands to submitEncryptedData
LegacyForms == {"empty", "strings", "binary"}
LegacyPayload(form, owner) ==
    IF form = "empty" THEN EmptyBytes ELSE Payload(form, owner, DefaultMetrics)

\* a result vector that no engine computed
ForgedResult ==
    encodeResult(Base64Text(<< 100 * SCALE, 100 * SCALE, 100 * SCALE, 0,
                               100 * SCALE >>))

\* the positions in the contract's log that hold an EncryptedDataSubmitted
Submissions(c) ==
    { e \in DOMAIN c.events : c.events[e].name = "EncryptedDataSubmitted" }

RECURSIVE Ascending(_)
Ascending(S) ==
    IF S = {} THEN << >>
    ELSE LET m == CHOOSE x \in S : \A y \in S : x <= y
         IN  << m >> \o Ascending(S \ {m})

\* the worker's callback on the event at position e: the transaction it
\* sends, if it gets that far, and the contract after it.  `fault` is a
\* transient fault of the run: none, the compute step throws, or sending
\* the transaction throws
WorkerCallback(c, e, fault) ==
    LET user == c.events[e].user
        encryptedPayload == c.events[e].data
        r == Engine_computeReputation(encryptedPayload)
        tx == Privara_storeEncryptedResult(c, "worker", user, r.ret)
    IN  IF fault = "compute" THEN [err |-> "compute failed", sent |-> FALSE, c |-> c]
        ELSE IF r.err # "" THEN [err |-> r.err, sent |-> FALSE, c |-> c]
        ELSE IF fault = "send" THEN [err |-> "transaction failed", sent |-> FALSE, c |-> c]
        ELSE [err |-> tx.err, sent |-> TRUE, c |-> tx.c]

Faults == {"none", "compute", "send"}

NoWorkerStep == [op |-> "none", caller |-> "", user |-> "", event |-> 0, err |-> ""]

\* the contract; contract.on registered or not; the queryFilter promise;
\* the log length when the subscription began; the events it has delivered;
\* the setImmediate queue; the callback invocations so far, by event; the
\* transient faults so far; the last step
NoWorker ==
    [chain |-> NoLegacy, listening |-> FALSE, scan |-> "none", liveFrom |-> 0,
     delivered |-> {}, queue |-> << >>, invocations |-> << >>, failures |-> 0,
     last |-> NoWorkerStep]


(***************************************************************************)
(* The state machine.                                                      *)
(***************************************************************************)
\* `metrics` holds the handles passed to submitMetrics; `arg` is the
\* encrypted input all eight come from, 0 when they come from two inputs
NoCall ==
    [op |-> "none", caller |-> "", who |-> "", arg |-> 0, proof |-> 0,
     metrics |-> << >>, err |-> "", ret |-> << >>, flag |-> FALSE,
     plain |-> << >>, shown |-> << >>]

\* the ledger as deployed
Deployed ==
    [encryptedMetrics |-> [u \in Users |-> [i \in 0..(NumMetrics - 1) |-> ZeroHandle]],
     encryptedResults |-> [u \in Users |-> [i \in 0..(NumResults - 1) |-> ZeroHandle]],
     hasSubmitted |-> [u \in Users |-> FALSE],
     resultReady |-> [u \in Users |-> FALSE],
     acl |-> {},
     events |-> << >>]

(***************************************************************************)
(* The twin ledger: the same contract, deployed the same way and given the *)
(* same calls by the same senders, where each encrypted input is replaced  *)
(* by one of the same owner and contract that encrypts other plaintexts.   *)
(***************************************************************************)
TwinInput == << 2, 1, 4, 3, 5 >>

RECURSIVE TwinHandle(_)
TwinHandle(h) ==
    CASE h[1] = OpInput -> InputHandle(TwinInput[h[2]], h[3])
      [] h[1] = OpSub -> FHE_sub(TwinHandle(h[2]), TwinHandle(h[3]))
      [] h[1] = OpAdd -> FHE_add(TwinHandle(h[2]), TwinHandle(h[3]))
      [] h[1] = OpDiv -> FHE_div(TwinHandle(h[2]), h[3])
      [] OTHER -> h

TwinHandles(hs) == [i \in DOMAIN hs |-> TwinHandle(hs[i])]

\* the outcome of `call` on the twin ledger
TwinCall(call) ==
    CASE call.op = "submitMetrics" ->
            submitMetrics(twin.s, call.caller, TwinHandles(call.metrics),
                          TwinInput[call.proof])
      [] call.op = "computeReputation" -> computeReputation(twin.s, call.caller)
      [] call.op = "getResult" -> getResult(twin.s, call.caller, call.arg)
      [] call.op = "getAllResults" -> getAllResults(twin.s, call.caller)
      [] call.op = "hasUserSubmitted" -> hasUserSubmitted(twin.s, call.who)
      [] call.op = "isResultReady" -> isResultReady(twin.s, call.who)
      [] call.op = "reset" -> reset(twin.s, call.caller)

\* the last call of the legacy pipeline: who ran it on whose submission,
\* the plaintext values the submission was made from, and the outcome
NoEngineCall ==
    [op |-> "none", party |-> "", user |-> "", form |-> "", plain |-> << >>,
     err |-> "", metrics |-> << >>, ratio |-> U32(0), divisors |-> {},
     ret |-> << >>]

Init ==
    /\ encryptedMetrics = [u \in Users |-> [i \in 0..(NumMetrics - 1) |-> ZeroHandle]]
    /\ encryptedResults = [u \in Users |-> [i \in 0..(NumResults - 1) |-> ZeroHandle]]
    /\ hasSubmitted = [u \in Users |-> FALSE]
    /\ resultReady = [u \in Users |-> FALSE]
    /\ acl = {}
    /\ events = << >>
    /\ lastCall = NoCall
    /\ twin = View(Deployed, FALSE)
    /\ engine = [fhevm |-> NoFhevm, call |-> NoEngineCall]
    /\ frontend = NoFrontend
    /\ worker = NoWorker
    /\ trace = << >>

Idle == lastCall.op = "none"

\* the ledger after `call` with outcome r, and what the caller gets back
OutcomeOf(call, r) ==
    /\ encryptedMetrics' = r.s.encryptedMetrics
    /\ encryptedResults' = r.s.encryptedResults
    /\ hasSubmitted' = r.s.hasSubmitted
    /\ resultReady' = r.s.resultReady
    /\ acl' = r.s.acl
    /\ events' = r.s.events
    /\ Len(r.s.events) <= MaxEvents
    /\ lastCall' = [call EXCEPT !.err = r.err, !.ret = r.ret, !.flag = r.flag]
    /\ twin' = TwinCall(call)
    /\ UNCHANGED << engine, frontend, worker, trace >>

Outcome(op, caller, who, arg, proof, r) ==
    OutcomeOf([NoCall EXCEPT !.op = op, !.caller = caller, !.who = who,
                             !.arg = arg, !.proof = proof], r)

\* the eight handles of encrypted input k, with the proof of input p
SubmitMetrics(sender, k, p) ==
    /\ Idle
    /\ OutcomeOf([NoCall EXCEPT !.op = "submitMetrics", !.caller = sender,
                                !.arg = k, !.proof = p,
                                !.metrics = InputHandles(k)],
                 submitMetrics(Cur, sender, InputHandles(k), p))

\* handles of two encrypted inputs k and k2 of one owner in one call, with
\* the proof of input k
SubmitMixedMetrics(sender, k, k2) ==
    /\ Idle
    /\ k # k2
    /\ EncInputs[k].owner = EncInputs[k2].owner
    /\ OutcomeOf([NoCall EXCEPT !.op = "submitMetrics", !.caller = sender,
                                !.proof = k, !.metrics = MixedHandles(k, k2)],
                 submitMetrics(Cur, sender, MixedHandles(k, k2), k))

ComputeReputation(sender) ==
    /\ Idle
    /\ Outcome("computeReputation", sender, "", 0, 0,
               computeReputation(Cur, sender))

GetResult(sender, index) ==
    /\ Idle
    /\ Outcome("getResult", sender, "", index, 0, getResult(Cur, sender, index))

GetAllResults(sender) ==
    /\ Idle
    /\ Outcome("getAllResults", sender, "", 0, 0, getAllResults(Cur, sender))

HasUserSubmitted(sender, user) ==
    /\ Idle
    /\ Outcome("hasUserSubmitted", sender, user, 0, 0, hasUserSubmitted(Cur, user))

IsResultReady(sender, user) ==
    /\ Idle
    /\ Outcome("isResultReady", sender, user, 0, 0, isResultReady(Cur, user))

Reset(sender) ==
    /\ Idle
    /\ Outcome("reset", sender, "", 0, 0, reset(Cur, sender))

\* `signer` asks for the result handles stored for `target`, naming
\* `userAddress` as the owner of the permission
DecryptResult(signer, userAddress, target, expired) ==
    /\ Idle
    /\ LET handles == [i \in 1..NumResults |-> encryptedResults[target][i - 1]]
           d == decryptResult(Cur, handles, signer, userAddress, expired)
       IN  lastCall' = [NoCall EXCEPT !.op = "decryptResult", !.caller = signer,
                                      !.who = userAddress, !.err = d.err,
                                      !.ret = handles, !.plain = d.plain,
                                      !.shown = d.shown]
    /\ UNCHANGED << encryptedMetrics, encryptedResults, hasSubmitted,
                    resultReady, acl, events, twin, engine, frontend,
                    worker, trace >>

\* the caller has read the outcome; the next call can be made
Return ==
    /\ ~Idle
    /\ lastCall' = NoCall
    /\ twin' = View(twin.s, FALSE)
    /\ UNCHANGED << encryptedMetrics, encryptedResults, hasSubmitted,
                    resultReady, acl, events, engine, frontend, worker,
                    trace >>

Next ==
    \/ \E sender \in Users, k \in InputIds, p \in InputIds : SubmitMetrics(sender, k, p)
    \/ \E sender \in Users, k \in InputIds, k2 \in InputIds :
          SubmitMixedMetrics(sender, k, k2)
    \/ \E sender \in Users : ComputeReputation(sender)
    \/ \E sender \in Users, index \in 0..MaxIndex : GetResult(sender, index)
    \/ \E sender \in Users : GetAllResults(sender)
    \/ \E sender \in Users, user \in Users : HasUserSubmitted(sender, user)
    \/ \E sender \in Users, user \in Users : IsResultReady(sender, user)
    \/ \E sender \in Users : Reset(sender)
    \/ \E signer \in Users, userAddress \in Users, target \in Users,
          expired \in BOOLEAN : DecryptResult(signer, userAddress, target, expired)
    \/ Return

Spec == Init /\ [][Next]_vars

(***************************************************************************)
(* The legacy pipeline as a state machine of its own.                      *)
(***************************************************************************)
EngineIdle == engine.call.op = "none"

LedgerIdle ==
    UNCHANGED << encryptedMetrics, encryptedResults, hasSubmitted,
                 resultReady, acl, events, lastCall, twin, frontend,
                 worker, trace >>

EngineOutcome(op, party, user, form, plain, r) ==
    [NoEngineCall EXCEPT !.op = op, !.party = party, !.user = user,
                         !.form = form, !.plain = plain, !.err = r.err,
                         !.metrics = r.metrics, !.ratio = r.ratio,
                         !.divisors = r.divisors, !.ret = r.ret]

\* the worker runs the engine on the payload `user` submitted
WorkerCompute(user, form, f, g) ==
    /\ EngineIdle
    /\ LET values == ProfileMetrics(f, g)
           r == Engine_computeReputation(Payload(form, user, values))
       IN  engine' = [engine EXCEPT
                         !.call = EngineOutcome("engine", "worker", user, form,
                                                values, r)]
    /\ LedgerIdle

\* the worker runs the engine on a profile at the edges of the metric ranges
WorkerComputeEdge(user, k) ==
    /\ EngineIdle
    /\ LET values == EdgeProfiles[k]
           r == Engine_computeReputation(Payload("strings", user, values))
       IN  engine' = [engine EXCEPT
                         !.call = EngineOutcome("engine", "worker", user,
                                                "strings", values, r)]
    /\ LedgerIdle

FhevmSubmit(sender, f, g) ==
    /\ EngineIdle
    /\ LET values == ProfileMetrics(f, g)
           arr == [i \in DOMAIN values |-> U32(values[i])]
           r == PrivaraFHEVM_submitEncryptedData(engine.fhevm, sender, arr)
       IN  engine' = [fhevm |-> r.c,
                      call |-> [NoEngineCall EXCEPT
                                   !.op = "submitEncryptedData",
                                   !.party = sender, !.user = sender,
                                   !.plain = values, !.err = r.err]]
    /\ LedgerIdle

FhevmCompute(sender, zeroQuot) ==
    /\ EngineIdle
    /\ LET r == PrivaraFHEVM_computeReputation(engine.fhevm, sender, zeroQuot)
       IN  engine' = [engine EXCEPT
                         !.call = EngineOutcome("fhevm", sender, sender, "",
                                                << >>, r)]
    /\ LedgerIdle

EngineReturn ==
    /\ ~EngineIdle
    /\ engine' = [engine EXCEPT !.call = NoEngineCall]
    /\ LedgerIdle

EngineNext ==
    \/ \E user \in Users, form \in PayloadForms,
          f \in 0..MaxFollowers, g \in 0..MaxFollowing :
          WorkerCompute(user, form, f, g)
    \/ \E user \in Users, k \in DOMAIN EdgeProfiles : WorkerComputeEdge(user, k)
    \/ \E sender \in Users, f \in 0..MaxFollowers, g \in 0..MaxFollowing :
          FhevmSubmit(sender, f, g)
    \/ \E sender \in Users, zeroQuot \in DivByZeroQuotients :
          FhevmCompute(sender, zeroQuot)
    \/ EngineReturn

EngineSpec == Init /\ [][EngineNext]_vars

(***************************************************************************)
(* The frontend's encryption module as a state machine of its own.         *)
(***************************************************************************)
FrontendIdle == frontend.call.op = "none"

FrontendFrame ==
    UNCHANGED << encryptedMetrics, encryptedResults, hasSubmitted,
                 resultReady, acl, events, lastCall, twin, engine, worker,
                 trace >>

\* a page calls initializeFHE, with or without a wallet provider
InitializeFHE(wallet) ==
    /\ FrontendIdle
    /\ LET r == initializeFHE(frontend.sdk, wallet)
       IN  frontend' = [frontend EXCEPT
                           !.sdk = r.m,
                           !.call = [NoFrontendCall EXCEPT
                                        !.op = "initializeFHE",
                                        !.wallet = wallet,
                                        !.started = r.started,
                                        !.result = r.result]]
    /\ FrontendFrame

\* the race of createInstance and the 30 second timer is decided
InitSettles ==
    /\ frontend.sdk.initPromise = "pending"
    /\ frontend' = [frontend EXCEPT !.sdk = initSettled(@, frontend.relayer)]
    /\ FrontendFrame

\* the relayer stops or starts answering
RelayerChanges ==
    /\ frontend' = [frontend EXCEPT
                       !.relayer = IF @ = "responsive" THEN "silent"
                                   ELSE "responsive"]
    /\ FrontendFrame

\* encryptMetrics packs what the SDK returned
CreateHexPayload(k, n, m) ==
    /\ FrontendIdle
    /\ LET input == EncryptedInput(k, n, m)
       IN  frontend' = [frontend EXCEPT
                           !.call = [NoFrontendCall EXCEPT
                                        !.op = "createHexPayload",
                                        !.input = input,
                                        !.hex = createHexPayload(input)]]
    /\ FrontendFrame

\* the submit page unpacks the stored payload
ParseHexPayload ==
    /\ frontend.call.op = "createHexPayload"
    /\ frontend' = [frontend EXCEPT
                       !.call.op = "parseHexPayload",
                       !.call.parsed = parseHexPayload(frontend.call.hex)]
    /\ FrontendFrame

FrontendReturn ==
    /\ ~FrontendIdle
    /\ frontend' = [frontend EXCEPT !.call = NoFrontendCall]
    /\ FrontendFrame

FrontendNext ==
    \/ \E wallet \in BOOLEAN : InitializeFHE(wallet)
    \/ InitSettles
    \/ RelayerChanges
    \/ \E k \in InputIds, n \in 0..MaxHandles, m \in 0..MaxProofLen :
          CreateHexPayload(k, n, m)
    \/ ParseHexPayload
    \/ FrontendReturn

FrontendSpec == Init /\ [][FrontendNext]_vars

(***************************************************************************)
(* The legacy contract and the worker as a state machine of its own.       *)
(***************************************************************************)
WorkerFrame ==
    UNCHANGED << encryptedMetrics, encryptedResults, hasSubmitted,
                 resultReady, acl, events, lastCall, twin, engine, frontend,
                 trace >>

LegacySubmit(sender, form) ==
    /\ LET r == Privara_submitEncryptedData(worker.chain, sender,
                                            LegacyPayload(form, sender))
       IN  /\ Len(r.c.events) <= MaxLegacyEvents
           /\ worker' = [worker EXCEPT
                            !.chain = r.c,
                            !.last = [NoWorkerStep EXCEPT
                                         !.op = "submitEncryptedData",
                                         !.caller = sender, !.user = sender,
                                         !.err = r.err]]
    /\ WorkerFrame

\* any identity sends storeEncryptedResult itself
LegacyStore(sender, user, forged) ==
    /\ LET r == Privara_storeEncryptedResult(
                    worker.chain, sender, user,
                    IF forged THEN ForgedResult ELSE EmptyBytes)
       IN  /\ Len(r.c.events) <= MaxLegacyEvents
           /\ worker' = [worker EXCEPT
                            !.chain = r.c,
                            !.last = [NoWorkerStep EXCEPT
                                         !.op = "storeEncryptedResult",
                                         !.caller = sender, !.user = user,
                                         !.err = r.err]]
    /\ WorkerFrame

\* listenForEvents: contract.on registers the handler, queryFilter is sent
ListenForEvents ==
    /\ ~worker.listening
    /\ worker' = [worker EXCEPT
                     !.listening = TRUE, !.scan = "pending",
                     !.liveFrom = Len(worker.chain.events),
                     !.last = [NoWorkerStep EXCEPT !.op = "listenForEvents"]]
    /\ WorkerFrame

\* the subscription hands over the next event emitted since it began
LiveEvent ==
    /\ worker.listening
    /\ LET fresh == { e \in Submissions(worker.chain) :
                        e > worker.liveFrom /\ e \notin worker.delivered }
       IN  /\ fresh # {}
           /\ LET e == Head(Ascending(fresh))
              IN  worker' = [worker EXCEPT
                                !.delivered = @ \cup {e},
                                !.queue = Append(@, e),
                                !.last = [NoWorkerStep EXCEPT
                                             !.op = "on", !.event = e]]
    /\ WorkerFrame

\* queryFilter resolves with the events of the last 1000 blocks, or rejects
ScanSettles(rejected) ==
    /\ worker.scan = "pending"
    /\ IF rejected
       THEN /\ worker.failures < MaxFailures
            /\ worker' = [worker EXCEPT
                             !.scan = "failed", !.failures = @ + 1,
                             !.last = [NoWorkerStep EXCEPT
                                          !.op = "queryFilter",
                                          !.err = "Error querying past events"]]
       ELSE worker' = [worker EXCEPT
                          !.scan = "done",
                          !.queue = @ \o Ascending(Submissions(worker.chain)),
                          !.last = [NoWorkerStep EXCEPT !.op = "queryFilter"]]
    /\ WorkerFrame

\* the next setImmediate callback runs
RunCallback(fault) ==
    /\ worker.queue # << >>
    /\ fault # "none" => worker.failures < MaxFailures
    /\ LET e == Head(worker.queue)
           r == WorkerCallback(worker.chain, e, fault)
       IN  /\ Len(r.c.events) <= MaxLegacyEvents
           /\ worker' = [worker EXCEPT
                            !.chain = r.c,
                            !.queue = Tail(@),
                            !.invocations = Append(@, e),
                            !.failures = IF fault = "none" THEN @ ELSE @ + 1,
                            !.last = [NoWorkerStep EXCEPT
                                         !.op = IF r.sent
                                                THEN "storeEncryptedResult"
                                                ELSE "callback",
                                         !.caller = "worker",
                                         !.user = worker.chain.events[e].user,
                                         !.event = e,
                                         !.err = r.err]]
    /\ WorkerFrame

WorkerNext ==
    \/ \E sender \in Users, form \in LegacyForms : LegacySubmit(sender, form)
    \/ \E sender \in Users, user \in Users, forged \in BOOLEAN :
          LegacyStore(sender, user, forged)
    \/ ListenForEvents
    \/ LiveEvent
    \/ \E rejected \in BOOLEAN : ScanSettles(rejected)
    \/ \E fault \in Faults : RunCallback(fault)

WorkerSpec == Init /\ [][WorkerNext]_vars

(***************************************************************************)
(* The ledger with the history of its successful state-changing calls.  A  *)
(* reverted call leaves neither a write nor an event.                      *)
(***************************************************************************)
TraceFrame == UNCHANGED << lastCall, twin, engine, frontend, worker >>

Traced(op, caller, r) ==
    /\ Idle
    /\ r.err = ""
    /\ Len(trace) < MaxTrace
    /\ Len(r.s.events) <= MaxEvents
    /\ encryptedMetrics' = r.s.encryptedMetrics
    /\ encryptedResults' = r.s.encryptedResults
    /\ hasSubmitted' = r.s.hasSubmitted
    /\ resultReady' = r.s.resultReady
    /\ acl' = r.s.acl
    /\ events' = r.s.events
    /\ trace' = Append(trace, [op |-> op, caller |-> caller,
                               emitted |-> SubSeq(r.s.events, Len(events) + 1,
                                                  Len(r.s.events))])
    /\ TraceFrame

TracedSubmit(sender, k) ==
    Traced("submitMetrics", sender, submitMetrics(Cur, sender, InputHandles(k), k))

TracedCompute(sender) ==
    Traced("computeReputation", sender, computeReputation(Cur, sender))

TracedReset(sender) == Traced("reset", sender, reset(Cur, sender))

LogNext ==
    \/ \E sender \in Users, k \in InputIds : TracedSubmit(sender, k)
    \/ \E sender \in Users : TracedCompute(sender)
    \/ \E sender \in Users : TracedReset(sender)

LogSpec == Init /\ [][LogNext]_vars

(***************************************************************************)
(* Vocabulary of the properties.                                           *)
(***************************************************************************)
\* the UserRecord state the two flags encode
StateOf(submitted, ready) ==
    CASE submitted /\ ~ready -> "Submitted"
      [] submitted /\ ready -> "Computed"
      [] ~submitted /\ ~ready -> "Empty"
      [] OTHER -> "ReadyWithoutSubmission"

State(u) == StateOf(hasSubmitted[u], resultReady[u])

\* this step is a call of `op`; lastCall' holds its caller and outcome
CallOf(op) == Idle /\ lastCall'.op = op

Succeeded == lastCall'.err = ""

LedgerUnchanged ==
    UNCHANGED << encryptedMetrics, encryptedResults, hasSubmitted,
                 resultReady, acl, events >>

Range(f) == { f[x] : x \in DOMAIN f }

(***************************************************************************)
(* C1: a record changes state only by a successful submit (Empty to        *)
(* Submitted), a successful compute (Submitted to Computed) or a reset     *)
(* (any state to Empty), each by the identity itself; no step takes Empty  *)
(* to Computed or Computed to Submitted; a reverted call changes nothing.  *)
(***************************************************************************)
C1_Step(u) ==
    LET before == State(u)
        after == StateOf(hasSubmitted'[u], resultReady'[u])
        by(op) == lastCall'.op = op /\ lastCall'.caller = u /\ Idle
    IN  /\ before # after =>
              \/ before = "Empty" /\ after = "Submitted"
                   /\ by("submitMetrics") /\ Succeeded
              \/ before = "Submitted" /\ after = "Computed"
                   /\ by("computeReputation") /\ Succeeded
              \/ after = "Empty" /\ by("reset")
        /\ ~(before = "Empty" /\ after = "Computed")
        /\ ~(before = "Computed" /\ after = "Submitted")
        /\ after \in {"Empty", "Submitted", "Computed"}
        /\ by("submitMetrics") /\ Succeeded =>
              before = "Empty" /\ after = "Submitted"
        /\ by("computeReputation") /\ Succeeded =>
              before = "Submitted" /\ after = "Computed"
        /\ by("reset") => Succeeded /\ after = "Empty"
        /\ ~Succeeded => before = after

\* C1: every step changes each record's state only as submit, compute and
\* reset allow, and a reverted call changes no state
C1_Transitions == [][\A u \in Users : C1_Step(u)]_vars

\* alice has gone round the whole cycle: her reset follows a compute
C1_Witness ==
    /\ lastCall.op = "reset" /\ lastCall.caller = "alice"
    /\ State("alice") = "Empty"
    /\ \E i \in DOMAIN events : events[i] = << "ReputationComputed", "alice" >>
    /\ encryptedResults["alice"][0] # ZeroHandle

(***************************************************************************)
(* C2: a submit by an identity that is Submitted or Computed fails with    *)
(* "Already submitted" whatever the proof, and leaves the identity's       *)
(* state and stored metrics as they were.                                  *)
(***************************************************************************)
C2_DoubleSubmit ==
    [][ CallOf("submitMetrics")
          /\ State(lastCall'.caller) \in {"Submitted", "Computed"}
        => /\ lastCall'.err = "Already submitted"
           /\ hasSubmitted'[lastCall'.caller] = hasSubmitted[lastCall'.caller]
           /\ resultReady'[lastCall'.caller] = resultReady[lastCall'.caller]
           /\ encryptedMetrics'[lastCall'.caller] = encryptedMetrics[lastCall'.caller]
      ]_vars

\* a second submit, with a proof that does not bind to the caller, refused
C2_Witness ==
    /\ lastCall.op = "submitMetrics"
    /\ lastCall.err = "Already submitted"
    /\ State(lastCall.caller) = "Computed"
    /\ EncInputs[lastCall.proof].owner # lastCall.caller
    /\ encryptedMetrics[lastCall.caller] # InputHandles(lastCall.arg)

(***************************************************************************)
(* C3: compute fails with "No metrics submitted" from Empty and with       *)
(* "Already computed" from Computed; state, stored vectors and events are  *)
(* unchanged in both cases.                                                *)
(***************************************************************************)
C3_ComputeErrors ==
    [][ CallOf("computeReputation") =>
          /\ State(lastCall'.caller) = "Empty" =>
                lastCall'.err = "No metrics submitted" /\ LedgerUnchanged
          /\ State(lastCall'.caller) = "Computed" =>
                lastCall'.err = "Already computed" /\ LedgerUnchanged
      ]_vars

\* a second compute refused
C3_Witness ==
    /\ lastCall.op = "computeReputation"
    /\ lastCall.err = "Already computed"
    /\ State(lastCall.caller) = "Computed"

(***************************************************************************)
(* C4: getResult fails with "Result not ready" whenever the caller is not  *)
(* Computed, for every index; when Computed it fails with "Invalid index"  *)
(* for index >= 5 and returns the stored handle for index 0..4.            *)
(* getAllResults fails with "Result not ready" unless Computed.            *)
(***************************************************************************)
C4_Getters ==
    [][ /\ CallOf("getResult") =>
             LET c == lastCall'.caller
                 index == lastCall'.arg
             IN  /\ State(c) # "Computed" => lastCall'.err = "Result not ready"
                 /\ State(c) = "Computed" /\ index >= 5 =>
                       lastCall'.err = "Invalid index"
                 /\ State(c) = "Computed" /\ index \in 0..4 =>
                       /\ Succeeded
                       /\ lastCall'.ret = << encryptedResults[c][index] >>
        /\ CallOf("getAllResults") =>
             LET c == lastCall'.caller
             IN  /\ State(c) # "Computed" => lastCall'.err = "Result not ready"
                 /\ State(c) = "Computed" =>
                       /\ Succeeded
                       /\ lastCall'.ret =
                            [i \in 1..5 |-> encryptedResults[c][i - 1]]
      ]_vars

\* an out-of-range index asked before the result exists
C4_Witness ==
    /\ lastCall.op = "getResult"
    /\ lastCall.arg >= 5
    /\ lastCall.err = "Result not ready"
    /\ State(lastCall.caller) = "Submitted"

(***************************************************************************)
(* C5: baseline profile.  For metrics in 0..100 a successful compute       *)
(* stores results that decrypt to 100 - bot_likelihood, engagement_rate,   *)
(* floor((posting_frequency + follower_quality) / 2), bot_likelihood and   *)
(* growth_score, in this order.                                            *)
(***************************************************************************)
InRange(v) == v[1] = 0 /\ v[2] <= 100

\* metrics with the given plaintexts in slots 2, 4, 5, 6, 7
PlainMetrics(e, b, p, q, g) ==
    [i \in 0..7 |->
        FHE_asEuint32(CASE i = 2 -> e [] i = 4 -> b [] i = 5 -> p
                        [] i = 6 -> q [] i = 7 -> g [] OTHER -> 0)]

\* the circuit on every bot_likelihood, engagement_rate, growth_score and
\* every (posting_frequency, follower_quality) pair of 0..100
C5_Grid ==
    /\ \A x \in 0..100 :
          LET r == ReputationHandles(PlainMetrics(x, x, 0, 0, x))
          IN  /\ Dec(r[0]) = U32(100 - x)
              /\ Dec(r[1]) = U32(x)
              /\ Dec(r[3]) = U32(x)
              /\ Dec(r[4]) = U32(x)
    /\ \A p \in 0..100, q \in 0..100 :
          Dec(ReputationHandles(PlainMetrics(0, 0, p, q, 0))[2])
             = U32((p + q) \div 2)

C5_Step ==
    CallOf("computeReputation") /\ Succeeded =>
        LET c == lastCall'.caller
            m == encryptedMetrics[c]
            r == encryptedResults'[c]
        IN  (\A i \in {2, 4, 5, 6, 7} : InRange(Dec(m[i]))) =>
               /\ Dec(r[0]) = U32(100 - Dec(m[4])[2])
               /\ Dec(r[1]) = Dec(m[2])
               /\ Dec(r[2]) = U32((Dec(m[5])[2] + Dec(m[6])[2]) \div 2)
               /\ Dec(r[3]) = Dec(m[4])
               /\ Dec(r[4]) = Dec(m[7])

\* C5: in-range metrics give the baseline scores, on every compute step
\* and on the whole 0..100 grid of the circuit (a fact of the circuit alone,
\* looked at in the freshly deployed ledger)
C5_Baseline == [](acl = {} /\ Idle => C5_Grid) /\ [][C5_Step]_vars

\* the end-to-end scenario: bot 15, engagement 75, posting 85, quality 90,
\* growth 80 give 85, 75, 87, 15, 80
C5_Witness ==
    /\ lastCall.op = "computeReputation" /\ lastCall.err = ""
    /\ lastCall.caller = "bob"
    /\ encryptedMetrics["bob"] = InputHandles(3)
    /\ [i \in 1..5 |-> Dec(encryptedResults["bob"][i - 1])]
          = << U32(85), U32(75), U32(87), U32(15), U32(80) >>

(***************************************************************************)
(* C6: identity isolation.  No ledger call by B changes the state, the     *)
(* stored metrics or the stored results of another identity A, and what    *)
(* B's getResult / getAllResults return are handles of B's own record,     *)
(* none of them held in A's record.                                        *)
(***************************************************************************)
C6_Step ==
    Idle /\ lastCall'.op \in {"submitMetrics", "computeReputation", "getResult",
                              "getAllResults", "reset"} =>
        LET b == lastCall'.caller
        IN  /\ \A a \in Users \ {b} :
                  /\ hasSubmitted'[a] = hasSubmitted[a]
                  /\ resultReady'[a] = resultReady[a]
                  /\ encryptedMetrics'[a] = encryptedMetrics[a]
                  /\ encryptedResults'[a] = encryptedResults[a]
            /\ lastCall'.op \in {"getResult", "getAllResults"} /\ Succeeded =>
                  /\ lastCall'.ret # << >>
                  /\ \A h \in Range(lastCall'.ret) :
                        /\ h \in Range(encryptedResults[b])
                        /\ \A a \in Users \ {b} :
                              /\ h \notin Range(encryptedResults[a])
                              /\ h \notin Range(encryptedMetrics[a])

\* C6: no call by one identity touches or returns another identity's record
C6_Isolation == [][C6_Step]_vars

\* both identities hold results; bob reads his
C6_Witness ==
    /\ State("alice") = "Computed" /\ State("bob") = "Computed"
    /\ lastCall.op = "getAllResults" /\ lastCall.caller = "bob"
    /\ lastCall.err = ""
    /\ Len(lastCall.ret) = 5

(***************************************************************************)
(* C7: reset takes a Computed identity to Empty (both flags false); the    *)
(* submit of new metrics and the compute that follow succeed, and the      *)
(* results are those of the newly submitted metrics alone.                 *)
(***************************************************************************)
\* the scores of plaintext metrics v (v[1] is follower_count)
ExpectedScores(v) ==
    << U32Sub(U32(100), U32(v[5])),
       U32(v[3]),
       U32DivScalar(U32Add(U32(v[6]), U32(v[7])), 2),
       U32(v[5]),
       U32(v[8]) >>

C7_Step ==
    LET u == lastCall'.caller
    IN  /\ CallOf("reset") =>
              /\ Succeeded
              /\ ~hasSubmitted'[u] /\ ~resultReady'[u]
        /\ CallOf("hasUserSubmitted") => lastCall'.flag = hasSubmitted[lastCall'.who]
        /\ CallOf("isResultReady") => lastCall'.flag = resultReady[lastCall'.who]
        /\ CallOf("submitMetrics") /\ State(u) = "Empty"
             /\ lastCall'.arg = lastCall'.proof
             /\ EncInputs[lastCall'.arg].owner = u
             /\ EncInputs[lastCall'.arg].contract = ThisContract
           => /\ Succeeded
              /\ encryptedMetrics'[u] = InputHandles(lastCall'.arg)
              /\ hasSubmitted'[u] /\ ~resultReady'[u]
        /\ CallOf("computeReputation") /\ State(u) = "Submitted" =>
              /\ Succeeded
              /\ resultReady'[u]
              /\ \E k \in InputIds :
                    /\ encryptedMetrics[u] = InputHandles(k)
                    /\ [i \in 1..5 |-> Dec(encryptedResults'[u][i - 1])]
                          = ExpectedScores(EncInputs[k].values)

\* C7: reset empties a Computed record; resubmission and recomputation
\* succeed and yield the scores of the new metrics alone
C7_ResetAndResubmit == [][C7_Step]_vars

\* alice computed on her first metrics (bot 10, authenticity 90), reset,
\* submitted her second metrics (bot 5) and computed: authenticity 95
C7_Witness ==
    /\ lastCall.op = "computeReputation" /\ lastCall.err = ""
    /\ lastCall.caller = "alice"
    /\ encryptedMetrics["alice"] = InputHandles(2)
    /\ Dec(encryptedResults["alice"][0]) = U32(95)
    /\ << FHE_sub(FHE_asEuint32(Hundred), InputHandle(1, 4)), "alice" >> \in acl
    /\ Dec(FHE_sub(FHE_asEuint32(Hundred), InputHandle(1, 4))) = U32(90)

(***************************************************************************)
(* C8: after reset the identity's stored metrics and stored results are    *)
(* cleared, and its state is Empty.                                        *)
(***************************************************************************)
C8_ResetClears ==
    [][ CallOf("reset") =>
          LET u == lastCall'.caller
          IN  /\ StateOf(hasSubmitted'[u], resultReady'[u]) = "Empty"
              /\ \A i \in 0..(NumMetrics - 1) : encryptedMetrics'[u][i] = ZeroHandle
              /\ \A i \in 0..(NumResults - 1) : encryptedResults'[u][i] = ZeroHandle
      ]_vars

(***************************************************************************)
(* C9: after reset no identity, the former owner included, keeps an ACL    *)
(* grant on a handle of the pre-reset metrics or results.                  *)
(***************************************************************************)
C9_ResetRevokes ==
    [][ CallOf("reset") =>
          LET u == lastCall'.caller
              old == (Range(encryptedMetrics[u]) \cup Range(encryptedResults[u]))
                        \ {ZeroHandle}
          IN  \A h \in old : \A a \in Users : << h, a >> \notin acl'
      ]_vars

(***************************************************************************)
(* C10: a decryption succeeds only if the signer is in the ACL of every    *)
(* requested handle; the ACL of each result handle of a Computed identity  *)
(* A is exactly {A, the contract}; a request for A's results signed by     *)
(* another identity is rejected.                                           *)
(***************************************************************************)
Grantees(h) == { g[2] : g \in { x \in acl : x[1] = h } }

StoredResults(u) == [i \in 1..NumResults |-> encryptedResults[u][i - 1]]

C10_Acl ==
    \A u \in Users :
        resultReady[u] =>
            \A i \in 0..(NumResults - 1) :
                Grantees(encryptedResults[u][i]) = { u, ThisContract }

C10_Step ==
    CallOf("decryptResult") =>
        /\ Succeeded =>
              /\ \A h \in Range(lastCall'.ret) : lastCall'.caller \in Grantees(h)
              /\ lastCall'.plain = [i \in 1..5 |-> Dec(lastCall'.ret[i])]
        /\ \A a \in Users :
              resultReady[a] /\ lastCall'.ret = StoredResults(a)
                /\ lastCall'.caller # a
              => /\ lastCall'.err \in {"Rejected", "Expired"}
                 /\ lastCall'.plain = << >>

\* C10: result handles are granted to their owner and the contract only,
\* and only a signer in the ACL of every requested handle decrypts
C10_OwnerOnlyDecryption == [] C10_Acl /\ [][C10_Step]_vars

\* bob, who holds results of his own, signs a request for alice's results
\* in time and is refused on the ACL
C10_Witness ==
    /\ lastCall.op = "decryptResult"
    /\ lastCall.caller = "bob" /\ lastCall.who = "bob"
    /\ State("alice") = "Computed" /\ State("bob") = "Computed"
    /\ lastCall.ret = StoredResults("alice")
    /\ lastCall.err = "Rejected"

(***************************************************************************)
(* C11: a submit by an Empty identity with eight handles and a proof that  *)
(* verifies for each of them succeeds, stores the eight handles, makes the *)
(* identity Submitted (hasUserSubmitted true, isResultReady false) and     *)
(* emits exactly one MetricsSubmitted(identity); an identity that has      *)
(* never submitted is Empty.                                               *)
(***************************************************************************)
ValidProof(metrics, p, sender) ==
    /\ DOMAIN metrics = 0..(NumMetrics - 1)
    /\ \A i \in DOMAIN metrics : ProofVerifies(metrics[i], p, sender)

NeverSubmitted(u) ==
    \A i \in DOMAIN events : events[i] # << "MetricsSubmitted", u >>

C11_Step ==
    \A u \in Users :
        CallOf("submitMetrics") /\ lastCall'.caller = u /\ State(u) = "Empty"
          /\ ValidProof(lastCall'.metrics, lastCall'.proof, u)
        => /\ Succeeded
           /\ encryptedMetrics'[u] = lastCall'.metrics
           /\ hasSubmitted'[u] /\ ~resultReady'[u]
           /\ events' = Append(events, << "MetricsSubmitted", u >>)

\* C11: a valid submit from Empty stores the handles, sets Submitted and
\* emits one event; whoever has never submitted is Empty
C11_SubmitSucceeds ==
    /\ [](\A u \in Users : NeverSubmitted(u) => State(u) = "Empty")
    /\ [][C11_Step]_vars

\* bob has submitted his first input; alice, who never did, is Empty
C11_Witness ==
    /\ lastCall.op = "submitMetrics" /\ lastCall.err = ""
    /\ lastCall.caller = "bob" /\ lastCall.arg = 3
    /\ encryptedMetrics["bob"] = InputHandles(3)
    /\ events = << << "MetricsSubmitted", "bob" >> >>
    /\ State("bob") = "Submitted"
    /\ NeverSubmitted("alice") /\ State("alice") = "Empty"

(***************************************************************************)
(* C12: a compute by a Submitted identity succeeds, stores exactly five    *)
(* result handles, allows each of them to the identity and to the          *)
(* contract, makes the identity Computed (isResultReady true,              *)
(* hasUserSubmitted still true) and emits exactly one                      *)
(* ReputationComputed(identity).                                           *)
(***************************************************************************)
C12_Step ==
    \A u \in Users :
        CallOf("computeReputation") /\ lastCall'.caller = u
          /\ State(u) = "Submitted"
        => /\ Succeeded
           /\ DOMAIN encryptedResults'[u] = 0..4
           /\ encryptedResults'[u] = ReputationHandles(encryptedMetrics[u])
           /\ \A i \in 0..4 :
                 /\ encryptedResults'[u][i] # ZeroHandle
                 /\ << encryptedResults'[u][i], u >> \in acl'
                 /\ << encryptedResults'[u][i], ThisContract >> \in acl'
           /\ resultReady'[u] /\ hasSubmitted'[u]
           /\ events' = Append(events, << "ReputationComputed", u >>)

\* C12: a compute from Submitted stores five handles granted to the
\* identity and the contract, sets Computed and emits one event
C12_ComputeSucceeds == [][C12_Step]_vars

\* alice's first compute: five handles, one event after her submission
C12_Witness ==
    /\ lastCall.op = "computeReputation" /\ lastCall.err = ""
    /\ lastCall.caller = "alice"
    /\ State("alice") = "Computed"
    /\ events = << << "MetricsSubmitted", "alice" >>,
                   << "ReputationComputed", "alice" >> >>
    /\ \A i \in 0..4 : << encryptedResults["alice"][i], ThisContract >> \in acl

(***************************************************************************)
(* C13: while an identity holds a submission (from its successful submit   *)
(* to its next reset) no submit, compute, getResult or getAllResults by    *)
(* any identity changes any of its eight stored metric handles.            *)
(***************************************************************************)
C13_Step ==
    Idle /\ lastCall'.op \in {"submitMetrics", "computeReputation",
                              "getResult", "getAllResults"} =>
        \A u \in Users :
            hasSubmitted[u] =>
                \A i \in 0..(NumMetrics - 1) :
                    encryptedMetrics'[u][i] = encryptedMetrics[u][i]

\* C13: stored metrics are immutable from submit to reset
C13_MetricsImmutable == [][C13_Step]_vars

\* alice, holding her first input, has tried to submit her second one
C13_Witness ==
    /\ lastCall.op = "submitMetrics" /\ lastCall.caller = "alice"
    /\ lastCall.arg = 2 /\ lastCall.proof = 2
    /\ hasSubmitted["alice"]
    /\ encryptedMetrics["alice"] = InputHandles(1)

(***************************************************************************)
(* C14: reset succeeds from Empty, Submitted and Computed and is           *)
(* idempotent: a second reset leaves the record as the first one left it,  *)
(* and a reset from Empty leaves the record unchanged.                     *)
(***************************************************************************)
\* the record of u in ledger state s
Record(s, u) ==
    [submitted |-> s.hasSubmitted[u], ready |-> s.resultReady[u],
     metrics |-> s.encryptedMetrics[u], results |-> s.encryptedResults[u]]

C14_Step ==
    \A u \in Users :
        CallOf("reset") /\ lastCall'.caller = u =>
            LET once == reset(Cur, u)
                twice == reset(once.s, u)
            IN  /\ Succeeded
                /\ once.err = "" /\ twice.err = ""
                /\ hasSubmitted'[u] = once.s.hasSubmitted[u]
                /\ resultReady'[u] = once.s.resultReady[u]
                /\ encryptedMetrics'[u] = once.s.encryptedMetrics[u]
                /\ encryptedResults'[u] = once.s.encryptedResults[u]
                /\ Record(twice.s, u) = Record(once.s, u)
                /\ State(u) = "Empty" => Record(once.s, u) = Record(Cur, u)

\* C14: reset always succeeds and resetting twice is resetting once
C14_ResetIdempotent == [][C14_Step]_vars

\* alice resets a record that is already Empty: she submitted once, and
\* the flags are down before and after
C14_Witness ==
    /\ lastCall.op = "reset" /\ lastCall.caller = "alice" /\ lastCall.err = ""
    /\ State("alice") = "Empty"
    /\ events = << << "MetricsSubmitted", "alice" >> >>
    /\ encryptedMetrics["alice"] = InputHandles(2)
    /\ State("bob") = "Empty"

(***************************************************************************)
(* C15: a submit by an Empty identity whose proof fails verification for   *)
(* one of the handles fails with InvalidProof and writes nothing: state,   *)
(* metric slots, ACL and events are as before the call, although the       *)
(* slots before the failing one were written inside the call.              *)
(***************************************************************************)
C15_Step ==
    \A u \in Users :
        CallOf("submitMetrics") /\ lastCall'.caller = u /\ State(u) = "Empty"
          /\ ~ValidProof(lastCall'.metrics, lastCall'.proof, u)
        => /\ lastCall'.err = "InvalidProof"
           /\ StateOf(hasSubmitted'[u], resultReady'[u]) = "Empty"
           /\ \A i \in 0..(NumMetrics - 1) :
                 encryptedMetrics'[u][i] = encryptedMetrics[u][i]
           /\ events' = events
           /\ LedgerUnchanged

\* C15: an invalid proof reverts the whole submit
C15_InvalidProof == [][C15_Step]_vars

\* the proof verified for the first slots, which the loop wrote, and
\* failed on a later one: nothing of the call is left
C15_Witness ==
    /\ lastCall.op = "submitMetrics" /\ lastCall.err = "InvalidProof"
    /\ lastCall.caller = "alice"
    /\ ProofVerifies(lastCall.metrics[0], lastCall.proof, "alice")
    /\ ~ProofVerifies(lastCall.metrics[SplitSlot], lastCall.proof, "alice")
    /\ SubmitLoop(Cur, "alice", lastCall.metrics, lastCall.proof, 0).s.encryptedMetrics["alice"][0]
          = lastCall.metrics[0]
    /\ encryptedMetrics["alice"][0] = ZeroHandle
    /\ acl = {}

(***************************************************************************)
(* C16: after a successful compute each of the five stored results         *)
(* decrypts to an integer of 0..100, whatever eight 32-bit values were     *)
(* submitted.                                                              *)
(***************************************************************************)
C16_ScoresInRange ==
    [][ \A u \in Users :
          CallOf("computeReputation") /\ lastCall'.caller = u /\ Succeeded =>
              \A i \in 0..(NumResults - 1) :
                  InRange(Dec(encryptedResults'[u][i]))
      ]_vars

(***************************************************************************)
(* C17: what the ledger lets a caller observe does not depend on the       *)
(* plaintexts: on the twin ledger, given the same calls on inputs that     *)
(* encrypt other values, every call ends with the same success or error,   *)
(* the same events and the same flag answers, and getResult and            *)
(* getAllResults return stored ciphertext handles only, the same ones up   *)
(* to the replaced inputs.                                                 *)
(***************************************************************************)
LedgerOps ==
    {"submitMetrics", "computeReputation", "getResult", "getAllResults",
     "hasUserSubmitted", "isResultReady", "reset"}

C17_Flags ==
    /\ hasSubmitted = twin.s.hasSubmitted
    /\ resultReady = twin.s.resultReady
    /\ events = twin.s.events

C17_Step ==
    Idle /\ lastCall'.op \in LedgerOps =>
        /\ lastCall'.err = twin'.err
        /\ lastCall'.flag = twin'.flag
        /\ events' = twin'.s.events
        /\ twin'.ret = TwinHandles(lastCall'.ret)
        /\ lastCall'.op \in {"getResult", "getAllResults"} =>
              \A h \in Range(lastCall'.ret) :
                  h \in Range(encryptedResults[lastCall'.caller])

\* C17: the twin ledger, fed other plaintexts, is observed alike
C17_Noninterference == [] C17_Flags /\ [][C17_Step]_vars

\* bob reads the results of his first input; on the twin ledger they are
\* those of his second input, which decrypt to other values
C17_Witness ==
    /\ lastCall.op = "getAllResults" /\ lastCall.caller = "bob"
    /\ lastCall.err = "" /\ twin.err = ""
    /\ encryptedMetrics["bob"] = InputHandles(3)
    /\ twin.s.encryptedMetrics["bob"] = InputHandles(4)
    /\ \A i \in 1..NumResults : Dec(lastCall.ret[i]) # Dec(twin.ret[i])

(***************************************************************************)
(* C19: getResult, getAllResults, hasUserSubmitted and isResultReady       *)
(* change nothing; a successful getAllResults returns the five stored      *)
(* handles, a repeated call returns the same array, and the stored         *)
(* results and flags of an identity change only by a submit, compute or    *)
(* reset of that identity.                                                 *)
(***************************************************************************)
C19_Step ==
    /\ Idle /\ lastCall'.op \in {"getResult", "getAllResults",
                                  "hasUserSubmitted", "isResultReady"}
          => LedgerUnchanged
    /\ \A u \in Users :
          /\ CallOf("getAllResults") /\ lastCall'.caller = u /\ Succeeded =>
                /\ Len(lastCall'.ret) = 5
                /\ lastCall'.ret = StoredResults(u)
                /\ getAllResults(getAllResults(Cur, u).s, u).ret = lastCall'.ret
          /\ \/ encryptedResults'[u] # encryptedResults[u]
             \/ resultReady'[u] # resultReady[u]
             \/ hasSubmitted'[u] # hasSubmitted[u]
             => /\ Idle
                /\ lastCall'.op \in {"submitMetrics", "computeReputation", "reset"}
                /\ lastCall'.caller = u

\* C19: the getters are read-only and getAllResults is repeatable
C19_ReadOnly == [][C19_Step]_vars

\* alice reads her five handles after bob has submitted and computed
C19_Witness ==
    /\ lastCall.op = "getAllResults" /\ lastCall.caller = "alice"
    /\ lastCall.err = ""
    /\ lastCall.ret = StoredResults("alice")
    /\ events = << << "MetricsSubmitted", "alice" >>,
                   << "ReputationComputed", "alice" >>,
                   << "MetricsSubmitted", "bob" >>,
                   << "ReputationComputed", "bob" >> >>

(***************************************************************************)
(* C18: the only party that ever holds plaintext metrics or scores of an   *)
(* identity is that identity: the engine run by the worker never holds     *)
(* the plaintext metrics of the submission it computes on, and a           *)
(* decryption of an identity's results is obtained by that identity only.  *)
(***************************************************************************)
\* << party, identity >>: party holds plaintext of identity
PlaintextObservers ==
    { << engine.call.party, engine.call.user >> : x \in
         { y \in {1} : /\ engine.call.op = "engine"
                        /\ engine.call.metrics = engine.call.plain } }
    \cup
    { << lastCall.caller, u >> : u \in
         { v \in Users : /\ lastCall.op = "decryptResult"
                         /\ lastCall.err = ""
                         /\ resultReady[v]
                         /\ lastCall.ret = StoredResults(v) } }

\* C18: nobody but the identity observes its plaintexts
C18_OnlyOwnerObserves == \A o \in PlaintextObservers : o[1] = o[2]

(***************************************************************************)
(* C20: in the off-chain engine and in PrivaraFHEVM.computeReputation the  *)
(* follower ratio is floor(followers * SCALE / following) when following   *)
(* is positive and 0 when it is zero, and no division by zero is made.     *)
(***************************************************************************)
\* the follower and following counts a legacy computation ran on
RatioInputs ==
    IF engine.call.op = "engine"
    THEN << U32(engine.call.metrics[1]), U32(engine.call.metrics[2]) >>
    ELSE << engine.fhevm.encryptedMetrics[engine.call.user][1],
            engine.fhevm.encryptedMetrics[engine.call.user][2] >>

\* C20: the ratio is the guarded floor quotient and zero is never a divisor
C20_GuardedRatio ==
    engine.call.op \in {"engine", "fhevm"} /\ engine.call.err = "" =>
        LET followers == RatioInputs[1][2]
            following == RatioInputs[2][2]
        IN  /\ engine.call.ratio =
                  IF following > 0
                  THEN U32((followers * SCALE) \div following)
                  ELSE U32(0)
            /\ U32(0) \notin engine.call.divisors

(***************************************************************************)
(* C21: each of the five outputs of the off-chain engine's                 *)
(* computeReputation lies in 0..100 * SCALE, for every vector of eight     *)
(* non-negative scaled metrics.                                            *)
(***************************************************************************)
\* the reputation vector the engine encoded
EngineVector == ParseBase64(engine.call.ret.encrypted.elems[1])

\* C21: every engine output is in 0..1000000
C21_EngineScoresInRange ==
    engine.call.op = "engine" /\ engine.call.err = "" =>
        /\ \A i \in DOMAIN engine.call.metrics : engine.call.metrics[i] >= 0
        /\ \A i \in DOMAIN EngineVector :
              EngineVector[i] >= 0 /\ EngineVector[i] <= 100 * SCALE

(***************************************************************************)
(* C22: after initializeFHE failed with the relayer connection timeout, a  *)
(* later call starts a new initialization attempt.                         *)
(***************************************************************************)
C22_Step ==
    /\ FrontendIdle
    /\ frontend'.call.op = "initializeFHE"
    /\ frontend'.call.wallet
    /\ frontend.sdk.initPromise = "rejected"
    /\ frontend.sdk.initError = TimeoutError
    => /\ frontend'.call.started
       /\ frontend'.sdk.initPromise = "pending"

\* C22: a call after the timeout starts a new attempt
C22_RetryAfterTimeout == [][C22_Step]_vars

(***************************************************************************)
(* C23: the hex payload of createHexPayload is 0x and the hex of a header  *)
(* holding the handle count, the handles in order, then the proof.         *)
(***************************************************************************)
\* the payload is 0x and two hex digits a byte; the bytes are a header of
\* `headerSize` bytes whose first byte is the handle count and whose other
\* bytes are zero, each handle in order, and the proof
PackedWithHeader(headerSize) ==
    LET input == frontend.call.input
        digits == frontend.call.hex.digits
        bytes == HexBytes(digits)
        n == Len(input.handles)
    IN  /\ frontend.call.hex.prefix = "0x"
        /\ Len(digits) = 2 * Len(bytes)
        /\ \A d \in DOMAIN digits : digits[d] \in 0..(HexBase - 1)
        /\ Len(bytes) = headerSize + n * HandleSize + Len(input.inputProof)
        /\ bytes[1] = n
        /\ \A b \in 2..headerSize : bytes[b] = 0
        /\ \A i \in 1..n :
              SubSeq(bytes, headerSize + (i - 1) * HandleSize + 1,
                     headerSize + i * HandleSize) = input.handles[i]
        /\ SubSeq(bytes, headerSize + n * HandleSize + 1, Len(bytes))
              = input.inputProof

\* C23 as amended: the header is four bytes, the first handle begins at
\* byte offset 4
C23_FourByteHeader ==
    frontend.call.op = "createHexPayload" => PackedWithHeader(4)

\* C23 as stated: the header is one byte, the first handle begins at byte
\* offset 1
C23_OneByteHeader ==
    frontend.call.op = "createHexPayload" => PackedWithHeader(1)

\* eight handles and a proof have been packed
C23_Witness ==
    /\ frontend.call.op = "createHexPayload"
    /\ Len(frontend.call.input.handles) = NumMetrics
    /\ Len(frontend.call.input.inputProof) = MaxProofLen
    /\ SubSeq(HexBytes(frontend.call.hex.digits), HeaderSize + 1,
             HeaderSize + HandleSize)
          = frontend.call.input.handles[1]

(***************************************************************************)
(* C24: parseHexPayload(createHexPayload(input)) returns the handles of    *)
(* the input in order and its proof bytes.                                 *)
(***************************************************************************)
\* C24: the round trip gives the input back
C24_RoundTrip ==
    frontend.call.op = "parseHexPayload" =>
        /\ frontend.call.hex = createHexPayload(frontend.call.input)
        /\ frontend.call.parsed.handles = frontend.call.input.handles
        /\ frontend.call.parsed.inputProof = frontend.call.input.inputProof

\* the payload of eight handles and a proof has been parsed
C24_Witness ==
    /\ frontend.call.op = "parseHexPayload"
    /\ Len(frontend.call.input.handles) = NumMetrics
    /\ Len(frontend.call.input.inputProof) = MaxProofLen
    /\ Len(frontend.call.parsed.handles) = NumMetrics
    /\ frontend.call.parsed.handles[NumMetrics] = HandleBytes(1, NumMetrics - 1)

(***************************************************************************)
(* C25: the worker retries on failure, so every submitted identity         *)
(* eventually has a result stored when failures are transient.             *)
(***************************************************************************)
\* the listener has nothing left to do: the scan has answered, every event
\* emitted since the subscription began was handed over, every scheduled
\* callback has run
WorkerQuiescent ==
    /\ worker.listening
    /\ worker.scan = "done"
    /\ worker.queue = << >>
    /\ \A e \in Submissions(worker.chain) :
          e > worker.liveFrom => e \in worker.delivered

\* C25: once the worker is done, every identity whose submission the
\* engine can decode has a result
C25_EventuallyStored ==
    WorkerQuiescent =>
        \A u \in Users :
            /\ worker.chain.hasSubmitted[u]
            /\ decodePayload(worker.chain.encryptedMetrics[u]).err = ""
            => worker.chain.resultReady[u]

(***************************************************************************)
(* C26: through the frontend (encryptMetrics, submitMetrics,               *)
(* computeReputation, decryptResult) every displayed score is 0 to 100,    *)
(* for all metrics validateMetrics accepts.                                *)
(***************************************************************************)
\* the encrypted inputs a handle was computed from
RECURSIVE HandleInputs(_)
HandleInputs(h) ==
    CASE h[1] = OpInput -> { h[2] }
      [] h[1] \in {OpSub, OpAdd} -> HandleInputs(h[2]) \cup HandleInputs(h[3])
      [] h[1] = OpDiv -> HandleInputs(h[2])
      [] OTHER -> {}

\* the metrics encryptMetrics scaled to the values of input k, if any
Unscaled(k) ==
    LET v == EncInputs[k].values
    IN  << v[1], v[2], v[3] \div 100, v[4], v[5] \div 100, v[6] \div 100,
           v[7] \div 100, v[8] \div 100 >>

\* input k is what encryptMetrics makes of metrics validateMetrics accepts
FrontendInput(k) ==
    /\ validateMetrics(Unscaled(k))
    /\ ScaledMetrics(Unscaled(k)) = EncInputs[k].values

\* C26: a decrypted result computed from frontend inputs is shown as five
\* numbers of 0..100
C26_DisplayedInRange ==
    /\ lastCall.op = "decryptResult"
    /\ lastCall.err = ""
    /\ \A i \in DOMAIN lastCall.ret :
          \A k \in HandleInputs(lastCall.ret[i]) : FrontendInput(k)
    => \A i \in DOMAIN lastCall.shown :
          /\ InRange(lastCall.shown[i][1])
          /\ lastCall.shown[i][1] = U32(100) => lastCall.shown[i][2] = 0

(***************************************************************************)
(* C27: in every reachable state and for every identity, resultReady       *)
(* implies hasSubmitted.                                                   *)
(***************************************************************************)
\* C27: no record is ready without a submission
C27_ReadyImpliesSubmitted ==
    \A u \in Users : resultReady[u] => hasSubmitted[u]

\* a record is Computed after the other identity has reset its own
C27_Witness ==
    /\ lastCall.op = "reset" /\ lastCall.caller = "bob"
    /\ Len(events) = MaxEvents
    /\ resultReady["alice"] /\ hasSubmitted["alice"]
    /\ ~resultReady["bob"] /\ ~hasSubmitted["bob"]

(***************************************************************************)
(* C28: each ReputationComputed(u) is preceded by a MetricsSubmitted(u)    *)
(* with no reset by u in between, and between two ReputationComputed(u)    *)
(* there is a reset by u followed by a MetricsSubmitted(u).                *)
(***************************************************************************)
CallsOf(op, u) ==
    { t \in DOMAIN trace : trace[t].op = op /\ trace[t].caller = u }

\* the calls whose step emitted exactly the event << name, u >>
Emitters(name, u) ==
    { t \in DOMAIN trace : trace[t].emitted = << << name, u >> >> }

\* the events the calls of the history emitted, in order
TraceEvents == Concat([t \in DOMAIN trace |-> trace[t].emitted])

\* C28: the order of the events of one identity
C28_EventOrder ==
    /\ events = TraceEvents
    /\ \A u \in Users :
          /\ \A c \in Emitters("ReputationComputed", u) :
                \E m \in Emitters("MetricsSubmitted", u) :
                    /\ m < c
                    /\ \A r \in CallsOf("reset", u) : ~(m < r /\ r < c)
          /\ \A c1 \in Emitters("ReputationComputed", u) :
                \A c2 \in Emitters("ReputationComputed", u) :
                    c1 < c2 =>
                        \E r \in CallsOf("reset", u) :
                            \E m \in Emitters("MetricsSubmitted", u) :
                                c1 < r /\ r < m /\ m < c2

\* an identity has submitted, computed, reset, submitted and computed again
C28_Witness ==
    /\ Cardinality(Emitters("ReputationComputed", "alice")) = 2
    /\ Cardinality(CallsOf("reset", "alice")) = 1
    /\ Len(events) = 4

(***************************************************************************)
(* C29: in the legacy contract the stored result is written only by the    *)
(* backend worker: storeEncryptedResult(user, ..) sent by another identity *)
(* changes neither the user's stored result nor its resultReady flag.      *)
(***************************************************************************)
C29_Step ==
    /\ worker'.last.op = "storeEncryptedResult"
    /\ worker'.last.caller # "worker"
    => \A u \in Users :
          /\ worker'.chain.encryptedResults[u] = worker.chain.encryptedResults[u]
          /\ worker'.chain.resultReady[u] = worker.chain.resultReady[u]

\* C29: a store by anyone but the worker changes nothing
C29_OnlyWorkerStores == [][C29_Step]_vars

(***************************************************************************)
(* C30: the worker invokes its callback at most once for each              *)
(* EncryptedDataSubmitted event, however the live subscription and the     *)
(* start-up scan interleave.                                               *)
(***************************************************************************)
InvocationsOf(e) ==
    Cardinality({ i \in DOMAIN worker.invocations : worker.invocations[i] = e })

\* C30: no event is processed twice
C30_AtMostOnce ==
    \A e \in Submissions(worker.chain) : InvocationsOf(e) <= 1

====
